---- MODULE Spec2Model ----
(***************************************************************************)
(* Model of src/AccessibilityAnalyzer.tsx: the React component that holds  *)
(* the URL field, the simulated scan (analyzeWebsite) and the PDF export   *)
(* (generatePDFReport).                                                    *)
(*                                                                         *)
(* The five useState cells are the variables websiteUrl, isAnalyzing,      *)
(* progress, results and error.  Every invocation of the async function    *)
(* analyzeWebsite that is suspended at its await is an entry of loops.     *)
(* The five cells hold what the last render showed, which is what the      *)
(* handlers of that render read.  queue holds, per cell, the value of the  *)
(* last setter call that no render has applied yet: the setter calls of a  *)
(* timer callback and of the effect on [websiteUrl] wait there for React's *)
(* render task.  Whether the synchronous render of a form or input event   *)
(* also applies the calls that are waiting is React's choice, which the    *)
(* source does not fix (it depends on the React version and on how long    *)
(* the calls have waited): both outcomes are steps of the model.  files    *)
(* holds the documents handed to pdf.save, the most recent MaxExports of   *)
(* them.  lastEvent and lastRun are history variables: they record what    *)
(* the last step was and how the last finished run ended, and no handler   *)
(* reads them.                                                             *)
(***************************************************************************)
EXTENDS Integers, Sequences, FiniteSets, TLC

VARIABLES websiteUrl, isAnalyzing, progress, results, error,
          queue, loops, files, lastEvent, lastRun

vars == <<websiteUrl, isAnalyzing, progress, results, error,
          queue, loops, files, lastEvent, lastRun>>

(***************************************************************************)
(* Bounds of the model.                                                    *)
(***************************************************************************)
\* Invocations of analyzeWebsite that may be suspended at the same time.
MaxLoops == 2
\* Saved documents kept in files: the most recent ones.
MaxExports == 1

(***************************************************************************)
(* Values.  A nullable cell is the empty sequence (null) or a one-element  *)
(* sequence.                                                               *)
(***************************************************************************)
None == <<>>
Some(x) == <<x>>

\* Values of the URL field: empty, and two URLs.
Urls == {"", "https://a.example", "https://b.example"}

\* <Input type="url" required>: the form submits only with a non-empty URL.
ValidUrls == {"https://a.example", "https://b.example"}

\* for (let i = 10; i <= 100; i += 10)
ProgressStart == 10
ProgressStep == 10
ProgressMax == 100

FailureMessage == "Failed to analyze website. Please try again."

\* Mutant of mockResults: the record is derived from the field's text.
mockResultsFromUrl ==
  [score |-> IF websiteUrl = "https://b.example" THEN 90 ELSE 85,
   level |-> "AA", wcagViolations |-> 15, aiSuggestions |-> 5,
   pagesScanned |-> 20, estimatedFixTime |-> "2 hours",
   colorContrastIssues |-> 3, ariaLabelIssues |-> 5,
   keyboardNavigationIssues |-> 2, industryComparison |-> 75,
   perceivable |-> TRUE, operable |-> TRUE, understandable |-> FALSE,
   robust |-> TRUE]

\* const mockResults: AccessibilityResult = {...}
mockResults ==
  [score |-> 85, level |-> "AA", wcagViolations |-> 15, aiSuggestions |-> 5,
   pagesScanned |-> 20, estimatedFixTime |-> "2 hours",
   colorContrastIssues |-> 3, ariaLabelIssues |-> 5,
   keyboardNavigationIssues |-> 2, industryComparison |-> 75,
   perceivable |-> TRUE, operable |-> TRUE, understandable |-> FALSE,
   robust |-> TRUE]

(***************************************************************************)
(* The rendered cells as a record, the queue of setter calls, and the      *)
(* state setters.  A setter queues its value; every setter call of the     *)
(* component passes a plain value, so of the calls queued for one cell the *)
(* last one decides.                                                       *)
(***************************************************************************)
State ==
  [websiteUrl |-> websiteUrl, isAnalyzing |-> isAnalyzing,
   progress |-> progress, results |-> results, error |-> error]

Cells == {"websiteUrl", "isAnalyzing", "progress", "results", "error"}

\* No setter call is waiting.
NoUpdates == [c \in Cells |-> None]

\* The cells s after a render that applies the queued calls q.
Apply(s, q) == [c \in Cells |-> IF q[c] = None THEN s[c] ELSE q[c][1]]

\* The cells once every queued setter call is applied.
Latest == Apply(State, queue)

\* The synchronous render of an event whose handler has queued sq: the cells
\* it shows, and the calls that are still waiting after it.  flush says that
\* the render also applies the calls that were waiting before the event.
Rendered(sq, flush) == Apply(IF flush THEN Latest ELSE State, sq)

Remaining(sq, flush) ==
  IF flush THEN NoUpdates
  ELSE [c \in Cells |-> IF sq[c] = None THEN queue[c] ELSE None]

Commit(s) ==
  /\ websiteUrl' = s.websiteUrl
  /\ isAnalyzing' = s.isAnalyzing
  /\ progress' = s.progress
  /\ results' = s.results
  /\ error' = s.error

setWebsiteUrl(q, v) == [q EXCEPT !.websiteUrl = Some(v)]
setIsAnalyzing(q, v) == [q EXCEPT !.isAnalyzing = Some(v)]
setProgress(q, v) == [q EXCEPT !.progress = Some(v)]
setResults(q, v) == [q EXCEPT !.results = Some(v)]
setError(q, v) == [q EXCEPT !.error = Some(v)]

\* Mutant of resetAnalysis: the error is not cleared.
resetAnalysisKeepsError(s) == setResults(setProgress(s, 0), None)

\* const resetAnalysis = () => { setProgress(0); setResults(null); setError(null); }
resetAnalysis(s) == setError(setResults(setProgress(s, 0), None), None)

\* Mutant of urlEffect: the effect also ends the running state.
urlEffectStopsRun(q, url) ==
  IF url # "" THEN setIsAnalyzing(resetAnalysis(q), FALSE) ELSE q

\* useEffect(() => { if (websiteUrl) resetAnalysis(); }, [websiteUrl]), run
\* after the render that shows the field's value url.
urlEffect(q, url) == IF url # "" THEN resetAnalysis(q) ELSE q

(***************************************************************************)
(* analyzeWebsite.  An entry of loops is one invocation suspended at       *)
(*   await new Promise((resolve) => setTimeout(resolve, 300))              *)
(* with i its loop variable; url (the field's value at the submit),        *)
(* written (the values it has passed to setProgress) and delays (the       *)
(* awaits that have resolved) are history.  shown says that the setter     *)
(* calls of the invocation's last step have been rendered: the render task *)
(* is posted when they are queued, the next delay elapses 300 ms later.    *)
(***************************************************************************)
NewLoop(url) ==
  [i |-> ProgressStart, url |-> url, written |-> <<>>, delays |-> 0,
   shown |-> TRUE]

\* i <= 100
LoopCond(i) == i <= ProgressMax

\* Mutant of AfterAwait: the loop variable advances by two steps.
AfterAwaitSkips(l) == [l EXCEPT !.i = @ + 2 * ProgressStep, !.delays = @ + 1]

\* i += 10, once the awaited delay has elapsed
AfterAwait(l) == [l EXCEPT !.i = @ + ProgressStep, !.delays = @ + 1]

\* Mutant of catchBlock: the exception is swallowed without a message.
catchBlockSilent(s) == s

\* catch (err) { setError("Failed to analyze website. Please try again."); }
catchBlock(s) == setError(s, Some(FailureMessage))

\* Mutant of finallyBlock: the running flag is not cleared.
finallyBlockMissing(s) == s

\* finally { setIsAnalyzing(false); }
finallyBlock(s) == setIsAnalyzing(s, FALSE)

(***************************************************************************)
(* The function's code from the loop test on, run until the next await or  *)
(* the function's end.  throws says that the step of this iteration (the   *)
(* creation of the delay) throws, after setProgress(i).  The outcome is    *)
(* the state, the loop entry and where the invocation is.                  *)
(***************************************************************************)
loopFrom(s, l, throws) ==
  IF LoopCond(l.i)
  THEN LET s1 == setProgress(s, l.i)
           l1 == [l EXCEPT !.written = Append(@, l.i)]
       IN IF throws
          THEN [st |-> finallyBlock(catchBlock(s1)), loop |-> l1, pc |-> "failed"]
          ELSE [st |-> s1, loop |-> l1, pc |-> "await"]
  ELSE [st |-> finallyBlock(setResults(s, Some(mockResults))),
        loop |-> l, pc |-> "completed"]

\* Mutant of analyzeWebsite: the run does not clear the previous outcome.
analyzeWebsiteNoReset(s, throws) ==
  loopFrom(setIsAnalyzing(s, TRUE), NewLoop(websiteUrl), throws)

\* try { setIsAnalyzing(true); resetAnalysis(); for (...) ...
analyzeWebsite(s, throws) ==
  loopFrom(resetAnalysis(setIsAnalyzing(s, TRUE)), NewLoop(websiteUrl), throws)

\* The suspended invocations once a render has applied every queued call.
AllShown(ls) == [k \in 1..Len(ls) |-> [ls[k] EXCEPT !.shown = TRUE]]

RemoveAt(q, k) == SubSeq(q, 1, k - 1) \o SubSeq(q, k + 1, Len(q))

\* How an invocation ended; of a completed one also what it wrote and waited.
FinishedRun(out) ==
  [outcome |-> out.pc, url |-> out.loop.url,
   written |-> IF out.pc = "completed" THEN out.loop.written ELSE <<>>,
   delays |-> IF out.pc = "completed" THEN out.loop.delays ELSE 0]

\* Mutant of ButtonDisabled: the submit button is never disabled.
ButtonNeverDisabled == FALSE

\* <Button type="submit" disabled={isAnalyzing}>
ButtonDisabled == isAnalyzing

\* The last step.
Event(kind) == [kind |-> kind]

(***************************************************************************)
(* form onSubmit: e.preventDefault(); analyzeWebsite().  The browser       *)
(* submits only through the enabled button and with a valid URL.  The      *)
(* function runs up to its first await inside the event, and the event's   *)
(* synchronous render shows its setter calls.                              *)
(***************************************************************************)
Submit(throws, flush) ==
  /\ ~ButtonDisabled
  /\ websiteUrl \in ValidUrls
  /\ Len(loops) < MaxLoops
  /\ LET out == analyzeWebsite(NoUpdates, throws)
         ls == IF flush THEN AllShown(loops) ELSE loops
     IN /\ Commit(Rendered(out.st, flush))
        /\ queue' = Remaining(out.st, flush)
        /\ loops' = IF out.pc = "await" THEN Append(ls, out.loop) ELSE ls
        /\ lastRun' = IF out.pc = "await" THEN lastRun ELSE FinishedRun(out)
  /\ lastEvent' = Event("submit")
  /\ UNCHANGED files

(***************************************************************************)
(* The delay of the k-th suspended invocation elapses and it resumes, in a *)
(* task of its own: its setter calls are queued for the render task.       *)
(***************************************************************************)
TimerStep(k, throws) ==
  /\ k \in 1..Len(loops)
  /\ loops[k].shown
  /\ LET l == AfterAwait(loops[k])
         out == loopFrom(queue, l, throws)
     IN /\ throws => LoopCond(l.i)
        /\ queue' = out.st
        /\ loops' = IF out.pc = "await"
                    THEN [loops EXCEPT ![k] = [out.loop EXCEPT !.shown = FALSE]]
                    ELSE RemoveAt(loops, k)
        /\ lastRun' = IF out.pc = "await" THEN lastRun ELSE FinishedRun(out)
  /\ lastEvent' = Event("timer")
  /\ UNCHANGED <<websiteUrl, isAnalyzing, progress, results, error, files>>

(***************************************************************************)
(* Input onChange: setWebsiteUrl(e.target.value).  The event's synchronous *)
(* render shows the field's new value; the effect on [websiteUrl] runs     *)
(* after that render, and the setter calls of its resetAnalysis are queued *)
(* for the render task.                                                    *)
(***************************************************************************)
ChangeUrl(v, flush) ==
  /\ v # websiteUrl
  /\ LET sq == setWebsiteUrl(NoUpdates, v)
     IN /\ Commit(Rendered(sq, flush))
        /\ queue' = urlEffect(Remaining(sq, flush), v)
  /\ loops' = IF flush THEN AllShown(loops) ELSE loops
  /\ lastEvent' = Event("change")
  /\ UNCHANGED <<files, lastRun>>

(***************************************************************************)
(* React's render task: the queued setter calls are applied and shown.     *)
(***************************************************************************)
Render ==
  /\ queue # NoUpdates
  /\ Commit(Latest)
  /\ queue' = NoUpdates
  /\ loops' = AllShown(loops)
  /\ lastEvent' = Event("render")
  /\ UNCHANGED <<files, lastRun>>

(***************************************************************************)
(* generatePDFReport.  A document is the sequence of the calls made on the *)
(* jsPDF object; pdf.save hands it over under a file name.                 *)
(***************************************************************************)
Digits == <<"0", "1", "2", "3", "4", "5", "6", "7", "8", "9">>

\* Mutant of toString: the digits come out least significant first.
RECURSIVE toStringReversed(_)
toStringReversed(n) ==
  IF n < 10 THEN Digits[n + 1]
  ELSE Digits[(n % 10) + 1] \o toStringReversed(n \div 10)

\* Number.prototype.toString of a non-negative integer (also `${n}`)
RECURSIVE toString(_)
toString(n) ==
  IF n < 10 THEN Digits[n + 1]
  ELSE toString(n \div 10) \o Digits[(n % 10) + 1]

\* b ? "Pass" : "Fail"
PassFail(b) == IF b THEN "Pass" ELSE "Fail"

ReportFileName == "accessibility-report.pdf"

\* pdf.lastAutoTable.finalY after the first table: set by the table renderer
\* from its layout; below the start on the same page, or anywhere on a
\* continuation page.
FinalYs == {30, 98}

TitleCalls ==
  << [op |-> "setFontSize", size |-> 18],
     [op |-> "text", str |-> "Accessibility Analysis Report", x |-> 20, y |-> 20] >>

\* Mutant of MetadataCalls: the level line is drawn before the score line.
MetadataCallsLevelFirst(url, r) ==
  << [op |-> "setFontSize", size |-> 12],
     [op |-> "text", str |-> "Website: " \o url, x |-> 20, y |-> 30],
     [op |-> "text", str |-> "WCAG Compliance Level: " \o r.level, x |-> 20, y |-> 40],
     [op |-> "text", str |-> "Overall Score: " \o toString(r.score), x |-> 20, y |-> 50] >>

MetadataCalls(url, r) ==
  << [op |-> "setFontSize", size |-> 12],
     [op |-> "text", str |-> "Website: " \o url, x |-> 20, y |-> 30],
     [op |-> "text", str |-> "Overall Score: " \o toString(r.score), x |-> 20, y |-> 40],
     [op |-> "text", str |-> "WCAG Compliance Level: " \o r.level, x |-> 20, y |-> 50] >>

\* Mutant of TableA: the Understandable row reads the robust flag.
TableAWrongFlag(r) ==
  [op |-> "autoTable", startY |-> 60,
   head |-> << <<"WCAG Guideline", "Status">> >>,
   body |-> << <<"Perceivable", PassFail(r.perceivable)>>,
               <<"Operable", PassFail(r.operable)>>,
               <<"Understandable", PassFail(r.robust)>>,
               <<"Robust", PassFail(r.robust)>> >>]

TableA(r) ==
  [op |-> "autoTable", startY |-> 60,
   head |-> << <<"WCAG Guideline", "Status">> >>,
   body |-> << <<"Perceivable", PassFail(r.perceivable)>>,
               <<"Operable", PassFail(r.operable)>>,
               <<"Understandable", PassFail(r.understandable)>>,
               <<"Robust", PassFail(r.robust)>> >>]

\* Mutant of TableB: the table starts at a fixed offset below the first one's
\* start instead of below its end.
TableBFixedStart(r, finalY) ==
  [op |-> "autoTable", startY |-> 60 + 10,
   head |-> << <<"Metric", "Value">> >>,
   body |-> << <<"WCAG Violations", toString(r.wcagViolations)>>,
               <<"AI Suggestions", toString(r.aiSuggestions)>>,
               <<"Pages Scanned", toString(r.pagesScanned)>>,
               <<"Estimated Fix Time", r.estimatedFixTime>>,
               <<"Color Contrast Issues", toString(r.colorContrastIssues)>>,
               <<"ARIA Label Issues", toString(r.ariaLabelIssues)>>,
               <<"Keyboard Navigation Issues", toString(r.keyboardNavigationIssues)>> >>]

TableB(r, finalY) ==
  [op |-> "autoTable", startY |-> finalY + 10,
   head |-> << <<"Metric", "Value">> >>,
   body |-> << <<"WCAG Violations", toString(r.wcagViolations)>>,
               <<"AI Suggestions", toString(r.aiSuggestions)>>,
               <<"Pages Scanned", toString(r.pagesScanned)>>,
               <<"Estimated Fix Time", r.estimatedFixTime>>,
               <<"Color Contrast Issues", toString(r.colorContrastIssues)>>,
               <<"ARIA Label Issues", toString(r.ariaLabelIssues)>>,
               <<"Keyboard Navigation Issues", toString(r.keyboardNavigationIssues)>> >>]

\* The calls on the jsPDF object that come before pdf.save, in program order.
RenderCalls(url, r, finalY) ==
  TitleCalls \o MetadataCalls(url, r) \o <<TableA(r), TableB(r, finalY)>>

\* Where an export may throw: nowhere (0), in the k-th call on the jsPDF
\* object (1..8), or in pdf.save (9).
FailPoints == 0..9

\* What pdf.save hands over: the file name, the calls made on the object and
\* the pdf.lastAutoTable.finalY that line 114 read.
SavedFile(calls, finalY) ==
  [name |-> ReportFileName, calls |-> calls, finalY |-> finalY]

\* Mutant of generatePDFReport: an exception of a drawing call is caught and
\* what has been drawn so far is saved.
generatePDFReportSavesPartial(s, fs, finalY, failAt) ==
  IF s.results = None THEN [files |-> fs, threw |-> FALSE]
  ELSE LET calls == RenderCalls(s.websiteUrl, s.results[1], finalY)
       IN IF failAt = 0
          THEN [files |-> Append(fs, SavedFile(calls, finalY)), threw |-> FALSE]
          ELSE IF failAt <= Len(calls)
          THEN [files |-> Append(fs, SavedFile(SubSeq(calls, 1, failAt - 1), finalY)),
                threw |-> FALSE]
          ELSE [files |-> fs, threw |-> TRUE]

\* Mutant of generatePDFReport: without a result a document holding the title
\* block and the Website line is saved.
generatePDFReportUnguarded(s, fs, finalY, failAt) ==
  LET head == TitleCalls \o << [op |-> "setFontSize", size |-> 12],
                [op |-> "text", str |-> "Website: " \o s.websiteUrl,
                 x |-> 20, y |-> 30] >>
  IN IF s.results = None
     THEN [files |-> Append(fs, SavedFile(head, finalY)), threw |-> FALSE]
     ELSE IF failAt = 0
          THEN [files |-> Append(fs, SavedFile(
                   RenderCalls(s.websiteUrl, s.results[1], finalY), finalY)),
                threw |-> FALSE]
          ELSE [files |-> fs, threw |-> TRUE]

(***************************************************************************)
(* generatePDFReport on state s: the saved files afterwards and whether an *)
(* exception left the function.  The function has no try: a call that      *)
(* throws ends it before pdf.save.                                         *)
(***************************************************************************)
generatePDFReport(s, fs, finalY, failAt) ==
  IF s.results = None THEN [files |-> fs, threw |-> FALSE]
  ELSE LET calls == RenderCalls(s.websiteUrl, s.results[1], finalY)
       IN IF failAt = 0
          THEN [files |-> Append(fs, SavedFile(calls, finalY)), threw |-> FALSE]
          ELSE [files |-> fs, threw |-> TRUE]

\* The most recent MaxExports of the saved documents.
Recent(fs) == IF Len(fs) > MaxExports THEN SubSeq(fs, Len(fs) - MaxExports + 1, Len(fs)) ELSE fs

\* {results && (<Card> ... <Button onClick={generatePDFReport}> ...)}
DownloadRendered == results # None

\* Mutant of ClickDownload: the handler also resets the analysis.
ClickDownloadResets(finalY, failAt) ==
  /\ DownloadRendered
  /\ LET out == generatePDFReport(State, files, finalY, failAt)
     IN /\ files' = Recent(out.files)
        /\ lastEvent' = Event(IF out.threw THEN "exportThrew" ELSE "export")
  /\ Commit(Apply(State, resetAnalysis(NoUpdates)))
  /\ UNCHANGED <<queue, loops, lastRun>>

(***************************************************************************)
(* onClick={generatePDFReport}, on the button that is rendered only inside *)
(* {results && (...)}.  The handler reads the cells of the last render:    *)
(* setter calls that are still queued are not visible to it.               *)
(***************************************************************************)
ClickDownload(finalY, failAt) ==
  /\ DownloadRendered
  /\ LET out == generatePDFReport(State, files, finalY, failAt)
     IN /\ files' = Recent(out.files)
        /\ lastEvent' = Event(IF out.threw THEN "exportThrew" ELSE "export")
  /\ UNCHANGED <<websiteUrl, isAnalyzing, progress, results, error,
                 queue, loops, lastRun>>

(***************************************************************************)
(* The component after its first render.                                   *)
(***************************************************************************)
Init ==
  /\ websiteUrl = ""
  /\ isAnalyzing = FALSE
  /\ progress = 0
  /\ results = None
  /\ error = None
  /\ queue = NoUpdates
  /\ loops = <<>>
  /\ files = <<>>
  /\ lastEvent = [kind |-> "mount"]
  /\ lastRun = [outcome |-> "none", url |-> "", written |-> <<>>, delays |-> 0]

Next ==
  \/ \E throws \in BOOLEAN, flush \in BOOLEAN : Submit(throws, flush)
  \/ \E k \in 1..MaxLoops, throws \in BOOLEAN : TimerStep(k, throws)
  \/ \E v \in Urls, flush \in BOOLEAN : ChangeUrl(v, flush)
  \/ Render
  \/ \E finalY \in FinalYs, failAt \in FailPoints : ClickDownload(finalY, failAt)

Spec == Init /\ [][Next]_vars

\* The timers of the delays fire: a suspended invocation is resumed.
Timers == \E k \in 1..MaxLoops, throws \in BOOLEAN : TimerStep(k, throws)

\* The render task and the timers are tasks of the event loop: each runs
\* once it is due.
FairSpec == Spec /\ WF_vars(Timers) /\ WF_vars(Render)

(***************************************************************************)
(* generatePDFReport as a function of its inputs: the component holds any  *)
(* result record and any URL, and the only handler is the export.          *)
(***************************************************************************)
\* wcagViolations, aiSuggestions, pagesScanned, colorContrastIssues,
\* ariaLabelIssues, keyboardNavigationIssues
CountSamples == { <<15, 5, 20, 3, 5, 2>>, <<0, 10, 7, 120, 99, 1000>>,
                  <<1, 2, 3, 4, 5, 6>> }

ScoreSamples == { <<85, "AA", 75>>, <<100, "AAA", 0>>, <<9, "A", 100>> }

ResultRecords ==
  { [score |-> sl[1], level |-> sl[2], wcagViolations |-> c[1],
     aiSuggestions |-> c[2], pagesScanned |-> c[3], estimatedFixTime |-> ft,
     colorContrastIssues |-> c[4], ariaLabelIssues |-> c[5],
     keyboardNavigationIssues |-> c[6], industryComparison |-> sl[3],
     perceivable |-> b[1], operable |-> b[2], understandable |-> b[3],
     robust |-> b[4]] :
    sl \in ScoreSamples, c \in CountSamples, ft \in {"2 hours", "3 days"},
    b \in [1..4 -> BOOLEAN] }

InitExport ==
  /\ websiteUrl \in Urls
  /\ isAnalyzing = FALSE
  /\ progress = ProgressMax
  /\ results \in { Some(r) : r \in ResultRecords }
  /\ error = None
  /\ queue = NoUpdates
  /\ loops = <<>>
  /\ files = <<>>
  /\ lastEvent = [kind |-> "mount"]
  /\ lastRun = [outcome |-> "none", url |-> "", written |-> <<>>, delays |-> 0]

NextExport == \E finalY \in FinalYs, failAt \in FailPoints : ClickDownload(finalY, failAt)

SpecExport == InitExport /\ [][NextExport]_vars

(***************************************************************************)
(* Properties of the session (specification Spec).                         *)
(***************************************************************************)
\* The handler that has just run ended an invocation of analyzeWebsite.
JustEnded == lastEvent.kind \in {"submit", "timer"} /\ loops = <<>>

Cleared(p, r, e) == p = 0 /\ r = None /\ e = None

\* The render task is running.
Rendering == queue # NoUpdates /\ lastEvent'.kind = "render"

\* C1, as stated: every change of the URL field's value, to any new value
\* (the empty string too) and in any status, leaves progress = 0, no result
\* and no error once the change is processed, that is with the setter calls
\* it has caused applied.
C1_AnyChangeResets ==
  [][websiteUrl' # websiteUrl
       => Cleared(Latest'.progress, Latest'.results, Latest'.error)]_vars

\* C1, amended: every change of the URL field's value to a non-empty value,
\* in any status, queues the reset of progress, result and error at once;
\* the render task shows every queued value, and when it runs next after the
\* change it leaves progress = 0, no result and no error.  A change to the
\* empty string resets nothing.
C1_NonEmptyChangeResets ==
  /\ [][(websiteUrl' # websiteUrl /\ websiteUrl' # "")
          => Cleared(Latest'.progress, Latest'.results, Latest'.error)]_vars
  /\ [][Rendering => (State' = Latest /\ queue' = NoUpdates)]_vars
  /\ [][(Rendering /\ lastEvent.kind = "change" /\ websiteUrl # "")
          => Cleared(progress', results', error')]_vars
  /\ [][(websiteUrl' # websiteUrl /\ websiteUrl' = "")
          => /\ Latest'.progress = Latest.progress
             /\ Latest'.results = Latest.results
             /\ Latest'.error = Latest.error]_vars

\* The reset queued by an edit to a non-empty value has been rendered during
\* a run that had written half of its values: the progress shown is 0.
C1_Witness ==
  /\ lastEvent.kind = "render"
  /\ websiteUrl # ""
  /\ isAnalyzing
  /\ loops # <<>>
  /\ Len(loops[1].written) >= 5
  /\ websiteUrl # loops[1].url
  /\ Cleared(progress, results, error)

\* C2: a run that goes through all ten steps ends with exactly the fixed
\* record as its result, whatever URL was submitted, and a result that is
\* shown is that record.
C2_FixedResult ==
  LET record == [score |-> 85, level |-> "AA", wcagViolations |-> 15,
                 aiSuggestions |-> 5, pagesScanned |-> 20,
                 estimatedFixTime |-> "2 hours", colorContrastIssues |-> 3,
                 ariaLabelIssues |-> 5, keyboardNavigationIssues |-> 2,
                 industryComparison |-> 75, perceivable |-> TRUE,
                 operable |-> TRUE, understandable |-> FALSE, robust |-> TRUE]
  IN /\ (JustEnded /\ lastRun.outcome = "completed")
          => /\ lastRun.url \in ValidUrls
             /\ Latest.results = Some(record)
     /\ results # None => results = Some(record)

\* The result of a run submitted for the second URL, completed after ten
\* delays, has been rendered.
C2_Witness ==
  /\ lastEvent.kind = "render"
  /\ lastRun.outcome = "completed"
  /\ lastRun.delays = 10
  /\ lastRun.url = "https://b.example"
  /\ websiteUrl = "https://b.example"
  /\ results # None

TenValues == <<10, 20, 30, 40, 50, 60, 70, 80, 90, 100>>

\* A run is shown as active or an invocation is suspended.
RunActive == isAnalyzing \/ loops # <<>>

\* C3, as stated: in every run the progress values observed from the start of
\* the run to its completion are 10, 20, ..., 100 in this order, none skipped,
\* repeated or above 100: while a run is active the progress shown is one of
\* the ten values, a submit shows 10, and every change of the progress shown
\* is a step to the next value.
C3_ObservedSequence ==
  /\ [](RunActive => \E j \in 1..10 : progress = TenValues[j])
  /\ [][(lastEvent'.kind = "submit" /\ lastEvent' # lastEvent)
          => progress' = ProgressStart]_vars
  /\ [][(RunActive /\ progress' # progress)
          => progress' = progress + ProgressStep]_vars

\* C4, as stated: while a run is active the stored progress never decreases
\* from one state to the next, whatever handlers interleave with the run.
C4_ProgressNeverDecreases ==
  [][(isAnalyzing /\ isAnalyzing') => progress' >= progress]_vars

\* C5, as stated: a run in which a step throws ends with the failure message
\* as error, no result, no active run and progress cleared to 0.
C5_FailureClearsProgress ==
  (JustEnded /\ lastRun.outcome = "failed")
    => /\ Latest.error = Some("Failed to analyze website. Please try again.")
       /\ Latest.results = None
       /\ ~Latest.isAnalyzing
       /\ Latest.progress = 0

\* C6: a result is present only when no run is active and the last run
\* completed, an error only when no run is active and the last run failed,
\* and never both; this holds of the cells as shown and of the cells with
\* the queued setter calls applied.
C6_ResultErrorExclusive ==
  /\ results # None => (~RunActive /\ lastRun.outcome = "completed")
  /\ error # None => (~RunActive /\ lastRun.outcome = "failed")
  /\ ~(results # None /\ error # None)
  /\ Latest.results # None
       => (~Latest.isAnalyzing /\ loops = <<>> /\ lastRun.outcome = "completed")
  /\ Latest.error # None
       => (~Latest.isAnalyzing /\ loops = <<>> /\ lastRun.outcome = "failed")
  /\ ~(Latest.results # None /\ Latest.error # None)

\* A run failed after an earlier one had completed and been exported: only
\* the error is shown.
C6_Witness ==
  /\ lastEvent.kind = "render"
  /\ lastRun.outcome = "failed"
  /\ error # None
  /\ results = None
  /\ files # <<>>

\* C7: with the submit button disabled while isAnalyzing, at most one
\* invocation of analyzeWebsite is in flight in every reachable state.
C7_AtMostOneRun == Len(loops) <= 1

\* A run is in flight, the field holds a valid URL again after an edit, and
\* the only thing that keeps a second submit away is the disabled button.
C7_Witness ==
  /\ Len(loops) = 1
  /\ lastEvent.kind = "change"
  /\ websiteUrl \in ValidUrls
  /\ websiteUrl # loops[1].url
  /\ Len(loops) < MaxLoops

\* The run has ended in Completed (result set) or Failed (error set).
RunEnded ==
  /\ JustEnded
  /\ ~Latest.isAnalyzing
  /\ \/ lastRun.outcome = "completed" /\ Latest.results # None
     \/ lastRun.outcome = "failed" /\ Latest.error # None

\* The suspended invocations, without the note of what has been rendered.
Runs(ls) == [k \in 1..Len(ls) |-> [ls[k] EXCEPT !.shown = TRUE]]

\* C8: once a run is in flight it always eventually ends in Completed with
\* its result or in Failed with its error (the timers and the render task
\* being run), no step other than the run's own resumption changes the run,
\* and the render task that follows the run's last step shows the outcome.
C8_RunAlwaysEnds ==
  /\ (loops # <<>>) ~> RunEnded
  /\ [][(loops # <<>> /\ lastEvent'.kind # "timer")
          => Runs(loops') = Runs(loops)]_vars
  /\ [][(Rendering /\ JustEnded)
          => /\ ~isAnalyzing'
             /\ \/ lastRun.outcome = "completed" /\ results' # None
                \/ lastRun.outcome = "failed" /\ error' # None]_vars

\* A run has completed although the URL field was edited while it ran.
C8_Witness ==
  /\ RunEnded
  /\ lastRun.outcome = "completed"
  /\ lastRun.delays = 10
  /\ websiteUrl # lastRun.url

(***************************************************************************)
(* Properties of the export (specification SpecExport: results and         *)
(* websiteUrl are the inputs of every document in files).                  *)
(***************************************************************************)
IsAutoTable(c) == c.op = "autoTable"

\* The tables of a document, in the order they were drawn.
Tables(f) == SelectSeq(f.calls, IsAutoTable)

\* The decimal text of the sampled counts, written out.
DecimalText(n) ==
  CASE n = 0 -> "0" [] n = 1 -> "1" [] n = 2 -> "2" [] n = 3 -> "3"
    [] n = 4 -> "4" [] n = 5 -> "5" [] n = 6 -> "6" [] n = 7 -> "7"
    [] n = 10 -> "10" [] n = 15 -> "15" [] n = 20 -> "20" [] n = 99 -> "99"
    [] n = 120 -> "120" [] n = 1000 -> "1000"
    [] n = 9 -> "9" [] n = 85 -> "85" [] n = 100 -> "100"

\* C9: Table A of every exported document has the header ("WCAG Guideline",
\* "Status") and exactly the four rows Perceivable, Operable, Understandable,
\* Robust in this order, each with "Pass" for a true flag and "Fail" for a
\* false one.
C9_TableA ==
  \A k \in 1..Len(files) :
    LET a == Tables(files[k])[1]
        r == results[1]
        Status(b) == IF b THEN "Pass" ELSE "Fail"
    IN /\ a.head = << <<"WCAG Guideline", "Status">> >>
       /\ Len(a.body) = 4
       /\ a.body[1] = <<"Perceivable", Status(r.perceivable)>>
       /\ a.body[2] = <<"Operable", Status(r.operable)>>
       /\ a.body[3] = <<"Understandable", Status(r.understandable)>>
       /\ a.body[4] = <<"Robust", Status(r.robust)>>

\* A document exported for a record whose flags differ: Pass and Fail rows.
C9_Witness ==
  /\ files # <<>>
  /\ results[1].perceivable /\ ~results[1].operable
  /\ ~results[1].understandable /\ results[1].robust
  /\ Tables(files[1])[1].body[2][2] = "Fail"
  /\ Tables(files[1])[1].body[4][2] = "Pass"

\* C10: Table B of every exported document has the header ("Metric",
\* "Value") and exactly the seven rows WCAG Violations, AI Suggestions, Pages
\* Scanned, Estimated Fix Time, Color Contrast Issues, ARIA Label Issues,
\* Keyboard Navigation Issues in this order, each count as its decimal text
\* and the fix time unchanged; no row carries industryComparison.
C10_TableB ==
  \A k \in 1..Len(files) :
    LET b == Tables(files[k])[2]
        r == results[1]
    IN /\ Len(Tables(files[k])) = 2
       /\ b.head = << <<"Metric", "Value">> >>
       /\ Len(b.body) = 7
       /\ b.body[1] = <<"WCAG Violations", DecimalText(r.wcagViolations)>>
       /\ b.body[2] = <<"AI Suggestions", DecimalText(r.aiSuggestions)>>
       /\ b.body[3] = <<"Pages Scanned", DecimalText(r.pagesScanned)>>
       /\ b.body[4] = <<"Estimated Fix Time", r.estimatedFixTime>>
       /\ b.body[5] = <<"Color Contrast Issues", DecimalText(r.colorContrastIssues)>>
       /\ b.body[6] = <<"ARIA Label Issues", DecimalText(r.ariaLabelIssues)>>
       /\ b.body[7] = <<"Keyboard Navigation Issues",
                        DecimalText(r.keyboardNavigationIssues)>>
       /\ \A j \in 1..Len(b.body) : b.body[j][1] # "Industry Comparison"

\* A document exported for a record with counts of one to four digits and a
\* fix time other than the mock's.
C10_Witness ==
  /\ files # <<>>
  /\ results[1].wcagViolations = 0
  /\ results[1].keyboardNavigationIssues = 1000
  /\ results[1].estimatedFixTime = "3 days"
  /\ results[1].industryComparison = 100
  /\ Tables(files[1])[2].body[7][2] = "1000"
  /\ Tables(files[1])[2].body[4][2] = "3 days"

\* C11: in every exported document Table B's start position is Table A's
\* reported end position plus 10, hence strictly below that end, also when
\* Table A ended on a continuation page (its end above its own start at 60).
C11_TableBStart ==
  \A k \in 1..Len(files) :
    LET a == Tables(files[k])[1]
        b == Tables(files[k])[2]
    IN /\ a.startY = 60
       /\ b.startY = files[k].finalY + 10
       /\ b.startY > files[k].finalY

\* A document whose Table A ended on a continuation page, above y = 60.
C11_Witness ==
  /\ files # <<>>
  /\ files[1].finalY < Tables(files[1])[1].startY
  /\ Tables(files[1])[2].startY = 40

\* An export handler has just run.
JustExported == lastEvent.kind \in {"export", "exportThrew"}

\* C12: a file is saved only from a state that shows the result of a
\* completed run, under the name accessibility-report.pdf; generatePDFReport
\* called on a state without a result saves nothing and throws nothing.
C12_SaveOnlyWithResult ==
  /\ [][files' # files
          => /\ results # None
             /\ lastRun.outcome = "completed"
             /\ ~RunActive
             /\ files' # <<>>
             /\ files'[Len(files')].name = "accessibility-report.pdf"]_vars
  /\ [](results = None
          => \A finalY \in FinalYs, failAt \in FailPoints :
               generatePDFReport(State, files, finalY, failAt)
                 = [files |-> files, threw |-> FALSE])
  /\ [][(JustExported' /\ lastEvent' # lastEvent) => results # None]_vars

\* A run has failed after a document was saved from the result of an earlier,
\* completed run: no result is present and the saved document is still the
\* only one.
C12_Witness ==
  /\ JustEnded
  /\ results = None
  /\ lastRun.outcome = "failed"
  /\ Len(files) = 1
  /\ files[1].name = "accessibility-report.pdf"

\* C13: a call of generatePDFReport leaves the result, the URL, progress,
\* error and the running flag as they were.
C13_ExportChangesNoState ==
  [][(JustExported' /\ (lastEvent' # lastEvent \/ files' # files))
       => UNCHANGED <<results, websiteUrl, progress, error, isAnalyzing,
                      queue>>]_vars

\* A document has just been saved and the session still holds the result and
\* the progress of the completed run.
C13_Witness ==
  /\ lastEvent.kind = "export"
  /\ files # <<>>
  /\ results = Some(mockResults)
  /\ progress = 100
  /\ websiteUrl \in ValidUrls

IsText(c) == c.op = "text"

\* The document holds the title, the three metadata lines and both tables.
FullyDrawn(f) ==
  /\ Len(SelectSeq(f.calls, IsText)) = 4
  /\ SelectSeq(f.calls, IsText)[1].str = "Accessibility Analysis Report"
  /\ Len(Tables(f)) = 2
  /\ Tables(f)[1].head = << <<"WCAG Guideline", "Status">> >>
  /\ Tables(f)[2].head = << <<"Metric", "Value">> >>

\* C15: an export in which a rendering step fails ends with the exception
\* leaving generatePDFReport and with no file saved; every file that is saved
\* holds the title, the three metadata lines and both tables.
C15_NoPartialDocument ==
  /\ [][(lastEvent'.kind = "exportThrew" /\ lastEvent' # lastEvent)
          => files' = files]_vars
  /\ [][files' # files
          => /\ lastEvent'.kind = "export"
             /\ files' # <<>>
             /\ FullyDrawn(files'[Len(files')])]_vars

\* An export of a present result has thrown and no file exists.
C15_Witness ==
  /\ lastEvent.kind = "exportThrew"
  /\ results # None
  /\ files = <<>>

\* The session status that the cells show.
StatusOf(running, r, e) ==
  IF running THEN "Running"
  ELSE IF r # None THEN "Completed"
  ELSE IF e # None THEN "Failed"
  ELSE "Idle"

\* The status of the session: of the cells with the queued calls applied.
Status == StatusOf(Latest.isAnalyzing, Latest.results, Latest.error)

\* C16, as stated: every change of the URL returns the session to Idle, from
\* any status, and the status only moves Idle -> Running, Running ->
\* Completed or Failed, and Completed or Failed -> Idle on a URL edit.  (A
\* submit whose first step throws passes through Running inside the handler
\* and counts as Idle -> Running -> Failed.)
C16_EditReturnsToIdle ==
  [][/\ websiteUrl' # websiteUrl => Status' = "Idle"
     /\ Status' # Status
          => \/ Status = "Idle" /\ Status' = "Running"
             \/ Status = "Idle" /\ Status' = "Failed" /\ lastEvent'.kind = "submit"
             \/ Status = "Running" /\ Status' \in {"Completed", "Failed"}
             \/ /\ Status \in {"Completed", "Failed"}
                /\ Status' = "Idle"
                /\ websiteUrl' # websiteUrl]_vars

\* C16, amended: a change of the URL to a non-empty value queues the reset
\* of progress, result and error and leaves the running flag alone, so the
\* session is Idle afterwards unless a run is active, which stays Running; a
\* change to the empty string leaves the status as it is.  The status moves
\* only Running -> Completed or Failed at a step of the run, Completed or
\* Failed -> Idle at a URL edit, and from Idle, Completed or Failed to
\* Running at a submit, or straight to Failed at a submit whose first step
\* throws.  The render task shows the status the session has.
C16_StatusTransitions ==
  [][/\ (websiteUrl' # websiteUrl /\ websiteUrl' # "")
          => /\ Cleared(Latest'.progress, Latest'.results, Latest'.error)
             /\ Latest'.isAnalyzing = Latest.isAnalyzing
             /\ Status' = IF Latest.isAnalyzing THEN "Running" ELSE "Idle"
     /\ (websiteUrl' # websiteUrl /\ websiteUrl' = "") => Status' = Status
     /\ Rendering
          => /\ Status' = Status
             /\ StatusOf(isAnalyzing', results', error') = Status
     /\ Status' # Status
          => \/ /\ Status = "Running"
                /\ Status' \in {"Completed", "Failed"}
                /\ lastEvent'.kind = "timer"
             \/ /\ Status \in {"Completed", "Failed"}
                /\ Status' = "Idle"
                /\ websiteUrl' # websiteUrl
             \/ /\ Status \in {"Idle", "Completed", "Failed"}
                /\ Status' \in {"Running", "Failed"}
                /\ lastEvent'.kind = "submit"]_vars

\* The reset queued by an edit of the URL to another non-empty value has
\* been rendered after a completed run, and the session is shown Idle.
C16_Witness ==
  /\ lastEvent.kind = "render"
  /\ lastRun.outcome = "completed"
  /\ loops = <<>>
  /\ websiteUrl # ""
  /\ websiteUrl # lastRun.url
  /\ StatusOf(isAnalyzing, results, error) = "Idle"
  /\ progress = 0

ResultFields ==
  {"score", "level", "wcagViolations", "aiSuggestions", "pagesScanned",
   "estimatedFixTime", "colorContrastIssues", "ariaLabelIssues",
   "keyboardNavigationIssues", "industryComparison", "perceivable",
   "operable", "understandable", "robust"}

\* What a published result stands on: a record with all fourteen fields, of
\* a run that has written all ten values, has waited after each and is over.
Published(r) ==
  /\ DOMAIN r[1] = ResultFields
  /\ loops = <<>>
  /\ lastRun.outcome = "completed"
  /\ lastRun.written = TenValues
  /\ lastRun.delays = 10

\* C17: a result is set only by the step that ends a run, after the run has
\* written progress 100 and the delay after it has elapsed; it is set once,
\* from no result, as a record with all fourteen fields, and it is shown as
\* that record by a later render; whenever a result is set or shown the run
\* that produced it has written all ten values and is over.
C17_ResultAfterScan ==
  /\ [](results # None => (Published(results) /\ ~isAnalyzing))
  /\ [](Latest.results # None => Published(Latest.results))
  /\ [][(Latest'.results # Latest.results /\ Latest'.results # None)
          => /\ Latest.results = None
             /\ lastEvent'.kind = "timer"
             /\ Len(loops) = 1 /\ loops' = <<>>
             /\ loops[1].written[Len(loops[1].written)] = 100
             /\ lastRun'.delays = loops[1].delays + 1]_vars
  /\ [][(results' # results /\ results' # None)
          => (results = None /\ results' = Latest.results)]_vars

\* The result published by the step after the tenth delay has been rendered.
C17_Witness ==
  /\ lastEvent.kind = "render"
  /\ results # None
  /\ DOMAIN results[1] = ResultFields
  /\ lastRun.delays = 10
  /\ loops = <<>>

\* C18: every exported document was drawn in the order title "Accessibility
\* Analysis Report" at (20, 20) in size 18, then in size 12 the lines with the
\* current URL, the result's score and the result's level, each on a lower
\* line of its own at x = 20, then Table A, then Table B, and was then saved
\* as accessibility-report.pdf.
C18_ExportOrder ==
  \A k \in 1..Len(files) :
    LET c == files[k].calls
        r == results[1]
    IN /\ Len(c) = 8
       /\ c[1] = [op |-> "setFontSize", size |-> 18]
       /\ c[2] = [op |-> "text", str |-> "Accessibility Analysis Report",
                  x |-> 20, y |-> 20]
       /\ c[3] = [op |-> "setFontSize", size |-> 12]
       /\ \A j \in 4..6 : c[j].op = "text" /\ c[j].x = 20
       /\ c[4].str = "Website: " \o websiteUrl
       /\ c[5].str = "Overall Score: " \o DecimalText(r.score)
       /\ c[6].str = "WCAG Compliance Level: " \o r.level
       /\ c[2].y < c[4].y /\ c[4].y < c[5].y /\ c[5].y < c[6].y
       /\ c[7].op = "autoTable" /\ c[7].head = << <<"WCAG Guideline", "Status">> >>
       /\ c[6].y < c[7].startY
       /\ c[8].op = "autoTable" /\ c[8].head = << <<"Metric", "Value">> >>
       /\ files[k].name = "accessibility-report.pdf"

\* A document exported for the second URL and a record other than the mock's.
C18_Witness ==
  /\ files # <<>>
  /\ websiteUrl = "https://b.example"
  /\ results[1].score = 9
  /\ results[1].level = "A"
  /\ files[1].calls[5].str = "Overall Score: 9"
  /\ files[1].calls[4].str = "Website: https://b.example"

\* C19, as stated: whenever a result is present, the URL field holds the URL
\* that was submitted for the run that produced the result.
C19_ResultUnderSubmittedUrl ==
  results # None => websiteUrl = lastRun.url

\* C20: isAnalyzing is true exactly while an invocation of analyzeWebsite is
\* in flight: the flag is set with the start of the run and cleared by the
\* step that ends it, by success or by a throw, and the flag shown is that
\* one once the render task has run; the submit button is then enabled, so
\* that with a valid URL in the field a new run can be started.
C20_RunningFlag ==
  /\ Latest.isAnalyzing <=> (loops # <<>>)
  /\ JustEnded => ~Latest.isAnalyzing
  /\ queue = NoUpdates => (isAnalyzing <=> (loops # <<>>))
  /\ (loops = <<>> /\ queue = NoUpdates) => ~ButtonDisabled
  /\ (loops = <<>> /\ queue = NoUpdates /\ websiteUrl \in ValidUrls)
       => ENABLED (\E throws \in BOOLEAN, flush \in BOOLEAN : Submit(throws, flush))

\* A new run is in flight that was started after a run had failed.
C20_Witness ==
  /\ lastEvent.kind = "submit"
  /\ loops # <<>>
  /\ isAnalyzing
  /\ lastRun.outcome = "failed"

====
